---- MODULE Spec2Model ----
(***************************************************************************)
(* Model of drive-tester-cli.py: the interactive menu (interactive_menu)   *)
(* and the random-read sampler (quick_read_test).  The external platform   *)
(* calls (CreateFile, DeviceIoControl, SetFilePointer, ReadFile, input,    *)
(* random.randint, time.time) are nondeterministic choices over their      *)
(* possible outcomes.  Strings typed by the user are sequences of          *)
(* one-character strings, so that int() and str.strip() are computed.      *)
(***************************************************************************)
EXTENDS Integers, Sequences, FiniteSets, TLC

VARIABLES
    pc,           \* where control is: "start", "menu", "sel", "count",
                  \* "qrt_open", "qrt_setup", "qrt_loop", "exited"
    exitCode,     \* process exit status once pc = "exited" (-1 while running)
    nDrives,      \* len(drives)
    dev,          \* index (1-based) of the drive selected last, 0 if none yet
    menuHandle,   \* the menu's local `handle`: "unbound", "open" or "closed"
    total_blocks, \* the menu's local total_blocks
    used_default, \* TRUE iff the count passed to the sampler came from an empty input
    msg,          \* what the menu printed during the last step ("none" if nothing)
    num_reads,    \* quick_read_test's parameter
    qh,           \* the sampler's handle: [state, opens, closes] for this invocation
    drive_size, max_blocks,
    i,            \* number of loop iterations completed
    block_index, offset,
    total_bytes, total_time, successes, failures,
    io,           \* calls of SetFilePointer / ReadFile in this invocation, and how
                  \* the last iteration's calls ended
    out,          \* what this invocation wrote to stdout: the trace lines in order
                  \* (without the block number and percentage they also show) and
                  \* the figures of the summary lines (<<>> if the line is absent)
    result        \* how the last invocation of the sampler ended

vars == <<pc, exitCode, nDrives, dev, menuHandle, total_blocks, used_default, msg,
          num_reads, qh, drive_size, max_blocks, i, block_index, offset,
          total_bytes, total_time, successes, failures, io, out, result>>

menuVars == <<nDrives, dev, menuHandle, total_blocks, used_default>>
loopVars == <<drive_size, max_blocks, i, block_index, offset,
              total_bytes, total_time, successes, failures>>

----------------------------------------------------------------------------
(* Bounds of the model *)

\* elapsed time of one ReadFile call, in clock ticks: 0..MaxElapsed
MaxElapsed == 1
\* at most this many physical drives are enumerated
MaxDrives == 1
\* the length query reports at most MaxBlocks whole blocks (plus a remainder)
MaxBlocks == 3

(* Program constants *)

\* quick_read_test(..., block_size=4096); the menu uses the same value
block_size == 4096
\* default_tests = 25
default_tests == 25

\* Lengths the length query can report: 0..MaxBlocks whole blocks, alone or
\* followed by a partial block.
DriveSizes ==
    {b * block_size + r : b \in 0..MaxBlocks, r \in {0, block_size - 1}}

\* Byte counts ReadFile can return: a full block or a short read.
ReadLens == {512, block_size}

Elapsed == 0..MaxElapsed

----------------------------------------------------------------------------
(* Text typed at the prompts *)

Digits == {"0", "1", "2", "3", "4", "5", "6", "7", "8", "9"}

DigitVal ==
    ("0" :> 0) @@ ("1" :> 1) @@ ("2" :> 2) @@ ("3" :> 3) @@ ("4" :> 4) @@
    ("5" :> 5) @@ ("6" :> 6) @@ ("7" :> 7) @@ ("8" :> 8) @@ ("9" :> 9)

RECURSIVE LStrip(_)
LStrip(s) ==
    IF s # <<>> /\ Head(s) = " " THEN LStrip(Tail(s)) ELSE s

RECURSIVE RStrip(_)
RStrip(s) ==
    IF s # <<>> /\ s[Len(s)] = " " THEN RStrip(SubSeq(s, 1, Len(s) - 1)) ELSE s

\* str.strip()
Strip(s) == RStrip(LStrip(s))

RECURSIVE DecVal(_)
DecVal(s) ==
    IF s = <<>> THEN 0
    ELSE DecVal(SubSeq(s, 1, Len(s) - 1)) * 10 + DigitVal[s[Len(s)]]

\* int(s): surrounding blanks ignored, an optional sign, then at least one
\* digit and nothing else; anything else raises ValueError (ok = FALSE).
ParseInt(s) ==
    LET t == Strip(s)
        signed == t # <<>> /\ Head(t) \in {"+", "-"}
        body == IF signed THEN Tail(t) ELSE t
    IN  IF body = <<>> \/ \E k \in 1..Len(body) : body[k] \notin Digits
        THEN [ok |-> FALSE, val |-> 0]
        ELSE [ok |-> TRUE,
              val |-> IF signed /\ Head(t) = "-" THEN 0 - DecVal(body) ELSE DecVal(body)]

ChoiceInputs == {<<"1">>, <<"2">>, <<"3">>, <<>>, <<"4">>, <<" ", "2">>}

SelInputs == {<<"1">>, <<"2">>, <<"0">>, <<>>, <<"x">>, <<" ", "1", " ">>, <<"-", "1">>}

CountInputs ==
    {<<>>, <<" ">>, <<"0">>, <<"1">>, <<"2">>, <<"+", "2">>, <<"3">>, <<" ", "3">>,
     <<"4">>, <<"5">>, <<"2", "5">>, <<"2", "6">>, <<"-", "1">>, <<"x">>, <<"2", "x">>,
     <<"1", ".", "5">>}

----------------------------------------------------------------------------
(* Outcomes of the platform calls *)

\* DeviceIoControl + struct.unpack: the call raises win32file.error, or returns
\* bytes struct.unpack rejects (struct.error), or returns a length.
QueryOutcomes ==
    {[kind |-> "error", size |-> 0], [kind |-> "malformed", size |-> 0]}
    \cup {[kind |-> "ok", size |-> s] : s \in DriveSizes}

\* One loop iteration's platform calls: SetFilePointer raises win32file.error,
\* ReadFile raises win32file.error, ReadFile returns len bytes after elapsed
\* clock ticks, or SetFilePointer raises an exception that is not
\* win32file.error.
AttemptOutcomes ==
    {[kind |-> "seek_error", len |-> 0, elapsed |-> 0],
     [kind |-> "read_error", len |-> 0, elapsed |-> 0],
     [kind |-> "other_exception", len |-> 0, elapsed |-> 0]}
    \cup {[kind |-> "read", len |-> n, elapsed |-> e] : n \in ReadLens, e \in Elapsed}

----------------------------------------------------------------------------
(* State after construction *)

NoHandle == [state |-> "none", opens |-> 0, closes |-> 0]
NoIo == [seeks |-> 0, reads |-> 0, last |-> "none"]
NoOut == [lines |-> <<>>, rate |-> <<>>, latency |-> <<>>, throughput |-> <<>>]

Init ==
    /\ pc = "start"
    /\ exitCode = -1
    /\ nDrives = 0
    /\ dev = 0
    /\ menuHandle = "unbound"
    /\ total_blocks = 0
    /\ used_default = FALSE
    /\ msg = "none"
    /\ num_reads = 0
    /\ qh = NoHandle
    /\ drive_size = 0
    /\ max_blocks = 0
    /\ i = 0
    /\ block_index = 0
    /\ offset = 0
    /\ total_bytes = 0
    /\ total_time = 0
    /\ successes = 0
    /\ failures = 0
    /\ io = NoIo
    /\ out = NoOut
    /\ result = "none"

----------------------------------------------------------------------------
(* Helpers of quick_read_test *)

\* win32file.CloseHandle(handle)
CloseHandle(h) == [h EXCEPT !.state = "closed", !.closes = @ + 1]

\* the handle CreateFile returned
OpenedHandle(h) == [h EXCEPT !.state = "open", !.opens = @ + 1]

FinallyLeaks(h) == h

\* finally: win32file.CloseHandle(handle)
Finally(h) == CloseHandle(h)

TooSmallNegativeOnly(mb) == mb < 0

\* if max_blocks < 1
TooSmall(mb) == mb < 1

\* random.randint(a, b) draws from a..b, both ends included
RandInt(a, b) == a..b

BlockIndexRangeInclusive(mb) == RandInt(0, mb)

\* block_index = random.randint(0, max_blocks - 1)
BlockIndexRange(mb) == RandInt(0, mb - 1)

CaughtInLoopReadOnly(kind) == kind = "read_error"

\* except win32file.error: the exceptions the inner try catches
CaughtInLoop(kind) == kind \in {"seek_error", "read_error"}

\* the accumulators of the loop
Acc ==
    [total_bytes |-> total_bytes, total_time |-> total_time,
     successes |-> successes, failures |-> failures]

\* the body of the inner try after a ReadFile that returned
OnRead(acc, len, elapsed) ==
    [acc EXCEPT !.total_bytes = @ + len, !.total_time = @ + elapsed,
                !.successes = @ + 1]

OnBlockErrorUncounted(acc) == acc

\* except win32file.error: failures += 1
OnBlockError(acc) == [acc EXCEPT !.failures = @ + 1]

\* print(f"[{i+1}/{num_reads}] ... Read {read_len} bytes in {elapsed*1000:.2f} ms")
PrintRead(o, n, len, elapsed) ==
    [o EXCEPT !.lines =
        Append(@, [n |-> n, tag |-> "read", len |-> len, elapsed |-> elapsed])]

\* print(f"[{i+1}/{num_reads}] ... Error reading block: {e}")
PrintError(o, n) ==
    [o EXCEPT !.lines = Append(@, [n |-> n, tag |-> "error", len |-> 0, elapsed |-> 0])]

ReportsAveragesAlways(s) == s >= 0

\* if successes > 0
ReportsAverages(s) == s > 0

\* The summary after the loop.  A quotient is the pair <<numerator, denominator>>;
\* a division by zero raises ZeroDivisionError, and then nothing computed after
\* it is printed (both averages are computed before either is printed).
\* The latency is in ms; the throughput pair is in bytes per tick (the program
\* shows it divided by the constant 1024**2).
Summary(acc, n) ==
    IF n = 0
    THEN [raised |-> TRUE, rate |-> <<>>, latency |-> <<>>, throughput |-> <<>>]
    ELSE LET rate == <<acc.successes, n>>
         IN  IF ~ReportsAverages(acc.successes)
             THEN [raised |-> FALSE, rate |-> rate, latency |-> <<>>, throughput |-> <<>>]
             ELSE IF acc.successes = 0 \/ acc.total_time = 0
             THEN [raised |-> TRUE, rate |-> rate, latency |-> <<>>, throughput |-> <<>>]
             ELSE [raised |-> FALSE, rate |-> rate,
                   latency |-> <<acc.total_time * 1000, acc.successes>>,
                   throughput |-> <<acc.total_bytes, acc.total_time>>]

\* results of quick_read_test that are exceptions leaving it
Raised == {"malformed", "loop_exception", "summary_exception"}

\* quick_read_test is left and control is back in the menu.  An exception that
\* leaves it is caught by the menu's `except Exception`.
Leave(res) ==
    /\ pc' = "menu"
    /\ result' = res
    /\ msg' = IF res \in Raised THEN "invalid_input" ELSE "none"

----------------------------------------------------------------------------
(* quick_read_test *)

\* handle = win32file.CreateFile(...), or "Error opening device" and return
QrtOpen ==
    /\ pc = "qrt_open"
    /\ \E opened \in BOOLEAN :
        IF opened
        THEN /\ qh' = OpenedHandle(qh)
             /\ pc' = "qrt_setup"
             /\ msg' = "none"
             /\ result' = result
        ELSE /\ qh' = qh
             /\ Leave("open_error")
    /\ UNCHANGED <<exitCode, menuVars, num_reads, loopVars, io, out>>

\* the length query, struct.unpack, max_blocks and the too-small check
QrtSetup ==
    /\ pc = "qrt_setup"
    /\ \E q \in QueryOutcomes :
        CASE q.kind = "error" ->
                /\ qh' = Finally(qh)
                /\ Leave("query_error")
                /\ UNCHANGED <<drive_size, max_blocks>>
          [] q.kind = "malformed" ->
                /\ qh' = Finally(qh)
                /\ Leave("malformed")
                /\ UNCHANGED <<drive_size, max_blocks>>
          [] q.kind = "ok" /\ TooSmall(q.size \div block_size) ->
                /\ drive_size' = q.size
                /\ max_blocks' = q.size \div block_size
                /\ qh' = Finally(qh)
                /\ Leave("too_small")
          [] q.kind = "ok" /\ ~TooSmall(q.size \div block_size) ->
                /\ drive_size' = q.size
                /\ max_blocks' = q.size \div block_size
                /\ qh' = qh
                /\ pc' = "qrt_loop"
                /\ msg' = "none"
                /\ result' = result
    /\ UNCHANGED <<exitCode, menuVars, num_reads, io, out, i, block_index, offset,
                   total_bytes, total_time, successes, failures>>

SetAcc(acc) ==
    /\ total_bytes' = acc.total_bytes
    /\ total_time' = acc.total_time
    /\ successes' = acc.successes
    /\ failures' = acc.failures

\* the platform calls one iteration makes, by its outcome: ReadFile is reached
\* only if SetFilePointer returned
Calls(c, kind) ==
    [seeks |-> c.seeks + 1,
     reads |-> IF kind \in {"read", "read_error"} THEN c.reads + 1 ELSE c.reads,
     last |-> kind]

\* one iteration of `for i in range(num_reads)`
QrtAttempt ==
    /\ pc = "qrt_loop"
    /\ i < num_reads
    /\ IF BlockIndexRange(max_blocks) = {}
       THEN \* randint raises ValueError on an empty range
            /\ qh' = Finally(qh)
            /\ Leave("loop_exception")
            /\ UNCHANGED <<io, out, i, block_index, offset,
                           total_bytes, total_time, successes, failures>>
       ELSE \E b \in BlockIndexRange(max_blocks), o \in AttemptOutcomes :
            /\ block_index' = b
            /\ offset' = b * block_size
            /\ io' = Calls(io, o.kind)
            /\ IF o.kind = "read"
               THEN /\ SetAcc(OnRead(Acc, o.len, o.elapsed))
                    /\ out' = PrintRead(out, i + 1, o.len, o.elapsed)
                    /\ i' = i + 1
                    /\ msg' = "none"
                    /\ UNCHANGED <<pc, qh, result>>
               ELSE IF CaughtInLoop(o.kind)
               THEN /\ SetAcc(OnBlockError(Acc))
                    /\ out' = PrintError(out, i + 1)
                    /\ i' = i + 1
                    /\ msg' = "none"
                    /\ UNCHANGED <<pc, qh, result>>
               ELSE /\ qh' = Finally(qh)
                    /\ Leave("loop_exception")
                    /\ UNCHANGED <<out, i, total_bytes, total_time, successes, failures>>
    /\ UNCHANGED <<exitCode, menuVars, num_reads, drive_size, max_blocks>>

\* the summary after the loop, then finally: CloseHandle
QrtSummary ==
    /\ pc = "qrt_loop"
    /\ i >= num_reads
    /\ LET s == Summary(Acc, num_reads)
       IN  /\ out' = [out EXCEPT !.rate = s.rate, !.latency = s.latency,
                                 !.throughput = s.throughput]
           /\ qh' = Finally(qh)
           /\ Leave(IF s.raised THEN "summary_exception" ELSE "done")
    /\ UNCHANGED <<exitCode, menuVars, num_reads, loopVars, io>>

----------------------------------------------------------------------------
(* main and interactive_menu *)

\* check_windows(), get_physical_drives() and the empty-list check
Main ==
    /\ pc = "start"
    /\ \E platform \in {"win32", "linux"}, n \in 0..MaxDrives :
        IF platform # "win32"
        THEN /\ pc' = "exited"
             /\ exitCode' = 1
             /\ msg' = "only_windows"
             /\ nDrives' = nDrives
        ELSE IF n = 0
        THEN /\ pc' = "exited"
             /\ exitCode' = 0
             /\ msg' = "no_drives"
             /\ nDrives' = 0
        ELSE /\ pc' = "menu"
             /\ exitCode' = exitCode
             /\ msg' = "none"
             /\ nDrives' = n
    /\ UNCHANGED <<dev, menuHandle, total_blocks, used_default, num_reads, qh,
                   loopVars, io, out, result>>

\* choice = input("Enter choice [1-3]: ") and the branches that prompt no further
MenuChoice ==
    /\ pc = "menu"
    /\ \E choice \in ChoiceInputs :
        CASE choice = <<"1">> ->
                /\ pc' = "menu" /\ msg' = "drive_list" /\ exitCode' = exitCode
          [] choice = <<"2">> ->
                /\ pc' = "sel" /\ msg' = "drive_list" /\ exitCode' = exitCode
          [] choice = <<"3">> ->
                /\ pc' = "exited" /\ msg' = "exiting" /\ exitCode' = 0
          [] OTHER ->
                /\ pc' = "menu" /\ msg' = "invalid_option" /\ exitCode' = exitCode
    \* what the previous invocation of the sampler did and printed is observed
    \* up to the next choice
    /\ qh' = NoHandle
    /\ io' = NoIo
    /\ out' = NoOut
    /\ result' = "none"
    /\ num_reads' = 0
    /\ used_default' = FALSE
    /\ drive_size' = 0
    /\ max_blocks' = 0
    /\ i' = 0
    /\ block_index' = 0
    /\ offset' = 0
    /\ total_bytes' = 0
    /\ total_time' = 0
    /\ successes' = 0
    /\ failures' = 0
    /\ UNCHANGED <<nDrives, dev, menuHandle, total_blocks>>

\* 0 <= sel_idx < len(drives)
ValidSelection(sel_idx, n) == 0 <= sel_idx /\ sel_idx < n

\* sel = input(...); int(sel); the menu's own CreateFile, DeviceIoControl,
\* CloseHandle and struct.unpack; total_blocks.  Any exception is caught by
\* `except Exception`.  Rebinding the local `handle` drops the previous handle
\* object, which closes its handle if it was still open.
SelectDrive ==
    /\ pc = "sel"
    /\ \E sel \in SelInputs, opened \in BOOLEAN, q \in QueryOutcomes :
        LET p == ParseInt(sel)
        IN  IF ~p.ok
            THEN /\ pc' = "menu" /\ msg' = "invalid_input"
                 /\ UNCHANGED <<dev, menuHandle, total_blocks>>
            ELSE IF ~ValidSelection(p.val - 1, nDrives)
            THEN /\ pc' = "menu" /\ msg' = "invalid_selection"
                 /\ UNCHANGED <<dev, menuHandle, total_blocks>>
            ELSE IF ~opened
            THEN /\ pc' = "menu" /\ msg' = "invalid_input"
                 /\ dev' = p.val
                 /\ UNCHANGED <<menuHandle, total_blocks>>
            ELSE CASE q.kind = "error" ->
                        /\ pc' = "menu" /\ msg' = "invalid_input"
                        /\ dev' = p.val
                        /\ menuHandle' = "open"
                        /\ total_blocks' = total_blocks
                   [] q.kind = "malformed" ->
                        /\ pc' = "menu" /\ msg' = "invalid_input"
                        /\ dev' = p.val
                        /\ menuHandle' = "closed"
                        /\ total_blocks' = total_blocks
                   [] q.kind = "ok" ->
                        /\ pc' = "count" /\ msg' = "total_blocks"
                        /\ dev' = p.val
                        /\ menuHandle' = "closed"
                        /\ total_blocks' = q.size \div block_size
    /\ UNCHANGED <<exitCode, nDrives, used_default, num_reads, qh, loopVars, io, out,
                   result>>

InRangeLowerOnly(n, total) == ~(n < 1)

\* not (num_tests < 1 or num_tests > total_blocks)
InRange(n, total) == ~(n < 1 \/ n > total)

\* what one pass of the count prompt makes of count_input:
\* the count, and whether the loop is left (break)
ReadCount(count_input, total) ==
    IF Strip(count_input) = <<>>
    THEN [accepted |-> InRange(default_tests, total), num_tests |-> default_tests,
          empty |-> TRUE, msg |-> "range"]
    ELSE LET p == ParseInt(count_input)
         IN  IF ~p.ok
             THEN [accepted |-> FALSE, num_tests |-> 0, empty |-> FALSE,
                   msg |-> "invalid_number"]
             ELSE [accepted |-> InRange(p.val, total), num_tests |-> p.val,
                   empty |-> FALSE, msg |-> "range"]

\* a pass of the count prompt that ends in `continue`
CountReject ==
    /\ pc = "count"
    /\ \E count_input \in CountInputs :
        LET r == ReadCount(count_input, total_blocks)
        IN  /\ ~r.accepted
            /\ msg' = r.msg
    /\ UNCHANGED <<pc, exitCode, menuVars, num_reads, qh, loopVars, io, out, result>>

\* a pass of the count prompt that ends in `break`, and the call
\* quick_read_test(dev, num_reads=num_tests)
CountAccept ==
    /\ pc = "count"
    /\ \E count_input \in CountInputs :
        LET r == ReadCount(count_input, total_blocks)
        IN  /\ r.accepted
            /\ num_reads' = r.num_tests
            /\ used_default' = r.empty
    /\ pc' = "qrt_open"
    /\ msg' = "none"
    /\ qh' = NoHandle
    /\ io' = NoIo
    /\ out' = NoOut
    /\ result' = "running"
    /\ UNCHANGED <<exitCode, nDrives, dev, menuHandle, total_blocks, loopVars>>

----------------------------------------------------------------------------

Next ==
    \/ Main
    \/ MenuChoice
    \/ SelectDrive
    \/ CountReject
    \/ CountAccept
    \/ QrtOpen
    \/ QrtSetup
    \/ QrtAttempt
    \/ QrtSummary

Spec == Init /\ [][Next]_vars

\* The user keeps answering the prompts, and at the count prompt eventually
\* types a count the prompt accepts if there is one; the platform calls return.
FairSpec ==
    /\ Spec
    /\ WF_vars(MenuChoice)
    /\ WF_vars(SelectDrive)
    /\ WF_vars(CountAccept)
    /\ WF_vars(QrtOpen)
    /\ WF_vars(QrtSetup)
    /\ WF_vars(QrtAttempt)
    /\ WF_vars(QrtSummary)

\* handles the process holds open
OpenHandles ==
    (IF menuHandle = "open" THEN 1 ELSE 0) + (IF qh.state = "open" THEN 1 ELSE 0)

----------------------------------------------------------------------------
(* Properties *)

\* the sampler has been called and has returned or raised
Ended == result \notin {"none", "running"}

\* the sampler got as far as the summary
Summarised == result \in {"done", "summary_exception"}

ReadLines(lines) == SelectSeq(lines, LAMBDA l : l.tag = "read")

RECURSIVE SumLen(_)
SumLen(lines) ==
    IF lines = <<>> THEN 0 ELSE Head(lines).len + SumLen(Tail(lines))

RECURSIVE SumElapsed(_)
SumElapsed(lines) ==
    IF lines = <<>> THEN 0 ELSE Head(lines).elapsed + SumElapsed(Tail(lines))

\* the quotients a / b and c / d are equal
SameQuotient(a, b, c, d) == b # 0 /\ d # 0 /\ a * d = c * b

\* C1: an invocation of the sampler whose open fails opens and closes no
\* handle; one whose open succeeds opens exactly one handle and has closed it
\* exactly once when it returns or raises, whichever way it ends (length query
\* raising, malformed length data, drive too small, the loop completed, an
\* exception in the loop or in the summary); it closes nothing before that.
C1_OneHandlePerInvocation ==
    /\ qh.opens <= 1
    /\ qh.closes <= qh.opens
    /\ (pc = "qrt_open" => qh = NoHandle)
    /\ (pc \in {"qrt_setup", "qrt_loop"} => qh = [state |-> "open", opens |-> 1, closes |-> 0])
    /\ (result = "open_error" => qh = NoHandle)
    /\ (result \in {"query_error", "malformed", "too_small", "done",
                   "loop_exception", "summary_exception"}
            => qh = [state |-> "closed", opens |-> 1, closes |-> 1])

\* the handle was released although the summary raised
C1_Witness ==
    /\ result = "summary_exception"
    /\ qh = [state |-> "closed", opens |-> 1, closes |-> 1]

\* C2: inside the loop successes + failures is the number of attempts made so
\* far, which is also the number of trace lines; a run that reaches the summary
\* has made exactly num_reads >= 1 attempts and printed exactly num_reads trace
\* lines, numbered 1..num_reads and each a read line or an error line, with
\* successes + failures = num_reads.
C2_AttemptsAccounted ==
    /\ (pc = "qrt_loop" \/ Summarised) =>
            /\ successes + failures = i
            /\ Len(out.lines) = i
            /\ io.seeks = i
            /\ i <= num_reads
            /\ successes = Len(ReadLines(out.lines))
            /\ \A k \in 1..Len(out.lines) :
                    out.lines[k].n = k /\ out.lines[k].tag \in {"read", "error"}
    /\ Summarised =>
            /\ num_reads >= 1
            /\ i = num_reads
            /\ Len(out.lines) = num_reads
            /\ successes + failures = num_reads

\* a completed run of three attempts with reads, a short read and errors
C2_Witness ==
    /\ result = "done"
    /\ num_reads = 3
    /\ successes = 2
    /\ failures = 1
    /\ \E k \in 1..3 : out.lines[k].tag = "read" /\ out.lines[k].len < block_size

\* C3: an iteration in which SetFilePointer or ReadFile raises win32file.error
\* leaves the sampler running in its loop: failures grows by one, successes,
\* total_bytes and total_time keep their values, one error line is printed, the
\* handle stays open, and the next iteration or the summary can follow.
C3_BlockErrorDoesNotAbort ==
    /\ [][(pc = "qrt_loop" /\ io'.seeks = io.seeks + 1
                /\ io'.last \in {"seek_error", "read_error"})
            => /\ pc' = "qrt_loop"
               /\ result' = "running"
               /\ qh' = qh
               /\ failures' = failures + 1
               /\ successes' = successes
               /\ total_bytes' = total_bytes
               /\ total_time' = total_time
               /\ i' = i + 1
               /\ out'.lines = Append(out.lines, [n |-> i + 1, tag |-> "error",
                                                  len |-> 0, elapsed |-> 0])]_vars
    /\ [](pc = "qrt_loop" =>
            IF i < num_reads THEN ENABLED QrtAttempt ELSE ENABLED QrtSummary)

\* a read was made after an iteration that failed
C3_Witness ==
    /\ pc = "qrt_loop"
    /\ Len(out.lines) = 2
    /\ out.lines[1].tag = "error"
    /\ out.lines[2].tag = "read"

\* C4: a run that reaches the summary with no success (num_reads >= 1) ends
\* normally: it prints the rate line 0 of num_reads and neither the latency nor
\* the throughput line, and raises nothing.
C4_AllFailedStillCompletes ==
    (Summarised /\ successes = 0) =>
        /\ result = "done"
        /\ num_reads >= 1
        /\ failures = num_reads
        /\ out.rate = <<0, num_reads>>
        /\ out.latency = <<>>
        /\ out.throughput = <<>>

\* three attempts, all failed
C4_Witness ==
    /\ result = "done"
    /\ num_reads = 3
    /\ failures = 3
    /\ out.rate = <<0, 3>>

\* C5: a run that reaches the summary with successes > 0 prints the latency
\* line and the throughput line, the latency being the sum of the elapsed times
\* of the read lines over their number (in ms) and the throughput the sum of
\* their byte counts over the sum of their elapsed times.
C5_AveragesReported ==
    (Summarised /\ successes > 0) =>
        LET reads == ReadLines(out.lines)
        IN  /\ result = "done"
            /\ out.latency # <<>>
            /\ out.throughput # <<>>
            /\ SameQuotient(out.latency[1], out.latency[2],
                            SumElapsed(reads) * 1000, Len(reads))
            /\ SameQuotient(out.throughput[1], out.throughput[2],
                            SumLen(reads), SumElapsed(reads))

\* C6: once an iteration has drawn a block, 0 <= block_index <
\* drive_size \div block_size, offset = block_index * block_size and the block
\* read at offset lies inside the device.
C6_BlockInsideDevice ==
    io.seeks > 0 =>
        /\ drive_size \div block_size >= 1
        /\ 0 <= block_index
        /\ block_index < drive_size \div block_size
        /\ offset = block_index * block_size
        /\ offset + block_size <= drive_size

\* the last block of a device of several blocks and no remainder was drawn
C6_Witness ==
    /\ io.seeks > 0
    /\ max_blocks > 1
    /\ block_index = max_blocks - 1
    /\ offset + block_size = drive_size

\* C7: when the length query returns a length below one block, the sampler
\* ends with the drive-too-small report: no SetFilePointer, no ReadFile, no
\* trace line, no summary line, and the handle closed.
C7_TooSmallNoReads ==
    /\ ((pc = "qrt_loop" \/ result \in {"too_small", "done", "loop_exception",
                                      "summary_exception"})
            /\ drive_size \div block_size < 1)
        => result = "too_small"
    /\ result = "too_small" =>
        /\ drive_size \div block_size < 1
        /\ io = NoIo
        /\ out = NoOut
        /\ qh = [state |-> "closed", opens |-> 1, closes |-> 1]
        /\ pc = "menu"

\* a device one byte short of a block
C7_Witness ==
    /\ result = "too_small"
    /\ drive_size = block_size - 1
    /\ qh.state = "closed"

\* C8: the menu calls the sampler only with 1 <= num_reads <= total_blocks; a
\* pass of the count prompt either calls it so, or prints a message and stays
\* at the prompt with the sampler not called; after an empty input the count
\* is default_tests, and the prompt accepts an empty input exactly when
\* 1 <= default_tests <= total_blocks (checked for every total up to
\* default_tests + 1).
C8_CountValidated ==
    /\ \A total \in 0..(default_tests + 1) :
            /\ ReadCount(<<>>, total).accepted
                  <=> (1 <= default_tests /\ default_tests <= total)
            /\ \A c \in CountInputs :
                  LET r == ReadCount(c, total)
                  IN  r.accepted => (1 <= r.num_tests /\ r.num_tests <= total)
    /\ []((pc \in {"qrt_open", "qrt_setup", "qrt_loop"} \/ Ended) =>
            /\ 1 <= num_reads
            /\ num_reads <= total_blocks
            /\ (used_default => num_reads = default_tests))
    /\ [][pc = "count" =>
            \/ /\ pc' = "qrt_open"
               /\ 1 <= num_reads' /\ num_reads' <= total_blocks
               /\ result' = "running"
            \/ /\ pc' = "count"
               /\ msg' \in {"invalid_number", "range"}
               /\ UNCHANGED <<num_reads, qh, io, out, result>>]_vars

\* the sampler is called with the largest count the drive allows
C8_Witness ==
    /\ pc = "qrt_open"
    /\ total_blocks = 3
    /\ num_reads = total_blocks

\* C9: once the read-test option is chosen, control comes back to the
\* top-level prompt.
C9_BackToMenu == (pc = "sel") ~> (pc = "menu")

\* C10: at the top-level prompt the process holds no open handle.
C10_NoHandleAtPrompt == pc = "menu" => OpenHandles = 0

====
